---------------------------- MODULE Spec2Model ----------------------------
(***************************************************************************)
(* The extraction engine of src/helper/metadata.py: one call of            *)
(* get_metadata (timeline mode) or get_metadata_by_date (search mode),     *)
(* driven step by step against the platform extractor.  The extractor is   *)
(* an external collaborator: what its pattern match, its initialize(), its *)
(* user lookup and each next() of its iterator do is an input, drawn by    *)
(* the action that makes the call.                                         *)
(*                                                                         *)
(* Python strings that the code searches or compares (failure messages,    *)
(* response texts) are sequences of one-character strings; media URLs are  *)
(* sequences of URL parts, of which the host is one.  Every item the       *)
(* modelled stream yields carries a date, so the datetime.now() default of *)
(* _build_timeline_entry is never taken.  The search query, date_filter    *)
(* and date_range fields, which only echo the request's strings, and the   *)
(* optional output file of get_metadata_by_date, whose failure is only     *)
(* printed, are not part of the state.                                     *)
(*                                                                         *)
(* Spec follows one call step by step.  ParseSpec applies _parse_username  *)
(* to each input of NameInputs.  PagesSpec calls get_metadata page after   *)
(* page, and once with batch_size = 0, on a stream that is the same for    *)
(* every call.                                                             *)
(***************************************************************************)
EXTENDS Integers, Sequences, FiniteSets, TLC

VARIABLES
    username_input,  \* the username argument as the caller gave it
    username,        \* username after username = _parse_username(username)
    source,          \* a caller's fixed stream, replayed by every call it makes
    collected,       \* what get_metadata returned for that caller's pages so far
    mode,            \* "timeline": get_metadata, "search": get_metadata_by_date
    batch_size,      \* get_metadata's batch_size argument
    page,            \* get_metadata's page argument
    media_type,      \* get_metadata's media_type argument
    pc,              \* the call's position
    cursor,          \* extractor._cursor
    user,            \* the record the account lookup returned
    stream,          \* the items the iterator has yielded so far, in order
    exhausted,       \* the iterator has raised StopIteration
    skip_branch,     \* which branch the skip took: "none", "cursor" or "loop"
    skipped,         \* the skip phase's counter
    items_fetched,   \* the fetch phase's counter
    account_info,    \* structured_output['account_info']
    total_urls,      \* structured_output['total_urls']
    new_timeline_entries,
    err,             \* the failure in flight, or NoFailure
    raised_by,       \* the failure a collaborator raised first, and where
    outcome,         \* "running", "returned" or "raised"
    result           \* the value returned

vars == << username_input, username, source, collected, mode, batch_size, page, media_type, pc, cursor, user, stream,
           exhausted, skip_branch, skipped, items_fetched, account_info, total_urls,
           new_timeline_entries, err, raised_by, outcome, result >>

----------------------------------------------------------------------------
(* Bounds of the model *)

MaxStream == 3

MaxBatch == 2

MaxPage == 1

----------------------------------------------------------------------------
(* Strings *)

LowerChar(c) ==
    CASE c = "A" -> "a"
         [] c = "B" -> "b"
         [] c = "C" -> "c"
         [] c = "D" -> "d"
         [] c = "E" -> "e"
         [] c = "F" -> "f"
         [] c = "G" -> "g"
         [] c = "H" -> "h"
         [] c = "I" -> "i"
         [] c = "J" -> "j"
         [] c = "K" -> "k"
         [] c = "L" -> "l"
         [] c = "M" -> "m"
         [] c = "N" -> "n"
         [] c = "O" -> "o"
         [] c = "P" -> "p"
         [] c = "Q" -> "q"
         [] c = "R" -> "r"
         [] c = "S" -> "s"
         [] c = "T" -> "t"
         [] c = "U" -> "u"
         [] c = "V" -> "v"
         [] c = "W" -> "w"
         [] c = "X" -> "x"
         [] c = "Y" -> "y"
         [] c = "Z" -> "z"
         [] OTHER -> c

\* str.lower()
Lower(s) == [i \in 1..Len(s) |-> LowerChar(s[i])]

\* sub in s, for sequences
Contains(sub, s) ==
    \E i \in 1..(Len(s) - Len(sub) + 1) : SubSeq(s, i, i + Len(sub) - 1) = sub

\* dict.get(k, default), a dict being a record
Get(d, k, default) == IF k \in DOMAIN d THEN d[k] ELSE default

EmptyDict == [k \in {} |-> k]

PyNone == "PyNone"

TWITTER_IMAGE_DOMAIN == << "pbs.twimg.com" >>

TWITTER_VIDEO_DOMAIN == << "video.twimg.com" >>

WITHHELD_ERROR_CODE == << "w", "i", "t", "h", "h", "e", "l", "d" >>

ERROR_MSG_WITHHELD ==
    << "A", "c", "c", "o", "u", "n", "t", " ", "w", "i", "t", "h", "h", "e",
      "l", "d", ".", " ", "A", "l", "t", "e", "r", "n", "a", "t", "i", "v",
      "e", " ", "v", "e", "r", "s", "i", "o", "n", " ", "a", "v", "a", "i",
      "l", "a", "b", "l", "e", " ", "a", "t", ":", " ", "h", "t", "t", "p",
      "s", ":", "/", "/", "w", "w", "w", ".", "p", "a", "t", "r", "e", "o",
      "n", ".", "c", "o", "m", "/", "e", "x", "y", "e", "z", "e", "d" >>

ERROR_MSG_AUTH_FAILED ==
    << "A", "u", "t", "h", "e", "n", "t", "i", "c", "a", "t", "i", "o", "n",
      " ", "f", "a", "i", "l", "e", "d", ".", " ", "V", "e", "r", "i", "f",
      "y", " ", "y", "o", "u", "r", " ", "a", "u", "t", "h", " ", "t", "o",
      "k", "e", "n", " ", "i", "s", " ", "v", "a", "l", "i", "d", "." >>

ERROR_MSG_ACCOUNT_NOT_FOUND ==
    << "F", "a", "i", "l", "e", "d", " ", "t", "o", " ", "f", "e", "t", "c",
      "h", " ", "a", "c", "c", "o", "u", "n", "t", " ", "i", "n", "f", "o",
      "r", "m", "a", "t", "i", "o", "n", ".", " ", "C", "h", "e", "c", "k",
      " ", "t", "h", "e", " ", "u", "s", "e", "r", "n", "a", "m", "e", " ",
      "a", "n", "d", " ", "a", "u", "t", "h", " ", "t", "o", "k", "e", "n",
      "." >>

\* str(e) of the AttributeError that error.response.text raises when
\* error.response is None
NoneTypeHasNoText ==
    << "'", "N", "o", "n", "e", "T", "y", "p", "e", "'", " ", "o", "b", "j",
      "e", "c", "t", " ", "h", "a", "s", " ", "n", "o", " ", "a", "t", "t",
      "r", "i", "b", "u", "t", "e", " ", "'", "t", "e", "x", "t", "'" >>

\* The start of the message of the ValueError of a URL that does not match
InvalidUrlMessage ==
    << "I", "n", "v", "a", "l", "i", "d", " ", "U", "R", "L" >>

NoneText == << "N", "o", "n", "e" >>

----------------------------------------------------------------------------
(* Failures: what str(e), isinstance(e, ValueError) and e.response show *)

Failure(etype, msg, has_response, response_is_none, response_text) ==
    [ etype |-> etype, msg |-> msg, has_response |-> has_response,
      response_is_none |-> response_is_none, response_text |-> response_text ]

NoFailure == Failure("none", << >>, FALSE, FALSE, << >>)

\* ValueError(WITHHELD_ERROR_CODE)
ValueErrorWithheld == Failure("ValueError", WITHHELD_ERROR_CODE, FALSE, FALSE, << >>)

\* ValueError(ERROR_MSG_ACCOUNT_NOT_FOUND)
ValueErrorNotFound ==
    Failure("ValueError", ERROR_MSG_ACCOUNT_NOT_FOUND, FALSE, FALSE, << >>)

\* ValueError(f"Invalid URL for {timeline_type}: {url}")
ValueErrorInvalidUrl == Failure("ValueError", InvalidUrlMessage, FALSE, FALSE, << >>)

\* What reading .text of a response that is None raises
AttributeErrorNoText == Failure("AttributeError", NoneTypeHasNoText, FALSE, FALSE, << >>)

MsgAccountWithheld ==
    << "A", "c", "c", "o", "u", "n", "t", " ", "W", "i", "t", "h", "h", "e", "l", "d" >>

MsgBoom == << "b", "o", "o", "m" >>

TextUserWithheld ==
    << "u", "s", "e", "r", " ", "W", "I", "T", "H", "H", "E", "L", "D" >>

TextOk == << "o", "k" >>

\* The failures the extractor raises in the model
Failures ==
    { ValueErrorWithheld,
      Failure("HttpError", MsgAccountWithheld, FALSE, FALSE, << >>),
      Failure("HttpError", MsgBoom, TRUE, FALSE, TextUserWithheld),
      Failure("HttpError", MsgBoom, TRUE, FALSE, TextOk),
      Failure("Exception", MsgBoom, FALSE, FALSE, << >>),
      Failure("Exception", NoneText, FALSE, FALSE, << >>),
      Failure("HttpError", NoneText, TRUE, FALSE, TextUserWithheld),
      Failure("HttpError", NoneText, TRUE, TRUE, << >>),
      Failure("HttpError", MsgAccountWithheld, TRUE, TRUE, << >>),
      Failure("HttpError", MsgBoom, TRUE, TRUE, << >>) }

\* _is_withheld_error evaluates error.response.text whenever the failure has a
\* response attribute, before it combines the three signals: a response that
\* is None makes the classifier itself raise AttributeError.
WithheldCheckRaises(error) == error.has_response /\ error.response_is_none

IsWithheldError(error) ==
    LET error_msg == Lower(error.msg)
        is_withheld_value_error ==
            error.etype = "ValueError" /\ error.msg = WITHHELD_ERROR_CODE
        has_withheld_in_message == Contains(WITHHELD_ERROR_CODE, error_msg)
        has_withheld_in_response ==
            error.has_response
            /\ Contains(WITHHELD_ERROR_CODE, Lower(error.response_text))
    IN  is_withheld_value_error \/ has_withheld_in_message
            \/ has_withheld_in_response

----------------------------------------------------------------------------
(* Dates, entries, account info *)

Digits == << "0", "1", "2", "3", "4", "5", "6", "7", "8", "9" >>

D2(n) == << Digits[((n \div 10) % 10) + 1], Digits[(n % 10) + 1] >>

D4(n) == D2(n \div 100) \o D2(n % 100)

\* dt.strftime("%Y-%m-%d %H:%M:%S") for a datetime, anything else unchanged
FormatDatetime(dt) ==
    IF dt.isdt
    THEN D4(dt.Y) \o << "-" >> \o D2(dt.M) \o << "-" >> \o D2(dt.D) \o << " " >>
            \o D2(dt.h) \o << ":" >> \o D2(dt.m) \o << ":" >> \o D2(dt.s)
    ELSE dt.str

Datetime(Y, M, D, h, m, s) ==
    [ isdt |-> TRUE, Y |-> Y, M |-> M, D |-> D, h |-> h, m |-> m, s |-> s ]

StrDate(str) == [ isdt |-> FALSE, str |-> str ]

\* bool(v) of a str or None
Truthy(v) == v # PyNone /\ v # ""

BuildTimelineEntry(media_url, tweet_data) ==
    LET entry == [ url |-> media_url,
                   date |-> FormatDatetime(tweet_data.date),
                   tweet_id |-> Get(tweet_data, "tweet_id", 0) ]
        typed == IF "type" \in DOMAIN tweet_data
                 THEN entry @@ [ type |-> tweet_data.type ]
                 ELSE entry
    IN  IF "retweet_id" \in DOMAIN tweet_data /\ tweet_data.retweet_id # 0
        THEN typed @@ [ retweet_id |-> tweet_data.retweet_id, is_retweet |-> TRUE ]
        ELSE typed @@ [ is_retweet |-> FALSE ]

IsTwitterMedia(media_url) ==
    Contains(TWITTER_IMAGE_DOMAIN, media_url) \/ Contains(TWITTER_VIDEO_DOMAIN, media_url)

\* The filter deciding by the tweet's type alone
ShouldIncludeMediaByType(media_url, tweet_data, mt) ==
    IF mt = "all" THEN TRUE
    ELSE LET tweet_type == Get(tweet_data, "type", PyNone)
         IN  IF mt = "image" THEN tweet_type = "photo"
             ELSE IF mt = "video" THEN tweet_type = "video"
             ELSE IF mt = "gif" THEN tweet_type = "animated_gif"
             ELSE FALSE

ShouldIncludeMedia(media_url, tweet_data, mt) ==
    IF mt = "all" THEN TRUE
    ELSE LET tweet_type == Get(tweet_data, "type", PyNone)
         IN  IF mt = "image"
             THEN Contains(TWITTER_IMAGE_DOMAIN, media_url) /\ tweet_type = "photo"
             ELSE IF mt = "video"
             THEN Contains(TWITTER_VIDEO_DOMAIN, media_url) /\ tweet_type = "video"
             ELSE IF mt = "gif"
             THEN Contains(TWITTER_VIDEO_DOMAIN, media_url)
                    /\ tweet_type = "animated_gif"
             ELSE FALSE

BuildAccountInfo(user_data) ==
    [ name |-> Get(user_data, "name", ""),
      nick |-> Get(user_data, "nick", ""),
      date |-> FormatDatetime(Get(user_data, "date", StrDate(<< >>))),
      followers_count |-> Get(user_data, "followers_count", 0),
      friends_count |-> Get(user_data, "friends_count", 0),
      profile_image |-> Get(user_data, "profile_image", ""),
      statuses_count |-> Get(user_data, "statuses_count", 0) ]

----------------------------------------------------------------------------
(* What the extractor hands over: account records and stream items *)

UserPlain ==
    [ rest_id |-> "42",
      legacy |-> [ name |-> "Alice", screen_name |-> "alice",
                   created |-> Datetime(2020, 2, 29, 0, 0, 0) ] ]

UserWithheld ==
    [ rest_id |-> "42",
      legacy |-> [ name |-> "Alice", screen_name |-> "alice",
                   created |-> Datetime(2020, 2, 29, 0, 0, 0),
                   withheld_scope |-> "user" ] ]

Users == { UserPlain, UserWithheld }

NoUser == [ rest_id |-> "" ]

\* extractor._transform_user: the raw account record in the builder's shape
TransformUser(u) ==
    [ name |-> u.legacy.screen_name, nick |-> u.legacy.name,
      date |-> u.legacy.created ]

TweetUser == [ name |-> "alice", nick |-> "Alice", followers_count |-> 7 ]

ImageUrlA == << "https://", "pbs.twimg.com", "/media/a.jpg" >>

ImageUrlB == << "https://", "pbs.twimg.com", "/media/b.jpg" >>

VideoUrl == << "https://", "video.twimg.com", "/v/c.mp4" >>

OtherUrl == << "https://", "example.com", "/d" >>

\* (Message.Directory, metadata): a tuple shorter than three
ItemDirectory == << "Directory", [ user |-> TweetUser ] >>

ItemPhotoUser ==
    << "Url", ImageUrlA,
       [ tweet_id |-> 11, date |-> Datetime(2024, 1, 5, 9, 3, 7),
         type |-> "photo", user |-> TweetUser, retweet_id |-> 0 ] >>

ItemPhotoRetweet ==
    << "Url", ImageUrlB,
       [ tweet_id |-> 12, date |-> Datetime(2024, 11, 30, 23, 59, 59),
         type |-> "photo", retweet_id |-> 99 ] >>

ItemVideo ==
    << "Url", VideoUrl,
       [ tweet_id |-> 13, date |-> StrDate(<< "2", "0", "2", "4" >>),
         type |-> "video" ] >>

ItemGifUser ==
    << "Url", VideoUrl,
       [ tweet_id |-> 14, date |-> Datetime(2024, 6, 1, 12, 0, 0),
         type |-> "animated_gif", user |-> TweetUser ] >>

ItemOtherUser ==
    << "Url", OtherUrl,
       [ tweet_id |-> 15, date |-> Datetime(2024, 6, 2, 12, 0, 0),
         user |-> TweetUser ] >>

\* A video-type tweet whose media URL is on the image host
ItemVideoOnImageHost ==
    << "Url", ImageUrlA,
       [ tweet_id |-> 16, date |-> Datetime(2024, 6, 3, 12, 0, 0),
         type |-> "video" ] >>

Items ==
    { ItemDirectory, ItemPhotoUser, ItemPhotoRetweet, ItemVideo, ItemGifUser,
      ItemOtherUser, ItemVideoOnImageHost }

MediaTypes == { "all", "image", "video", "gif", "other" }

NoCursor == PyNone

SomeCursor == "cursor-1"

NotRaised == [ at |-> "none", failure |-> NoFailure ]

----------------------------------------------------------------------------
(* _parse_username *)

StartsWith(s, prefix) ==
    Len(s) >= Len(prefix) /\ SubSeq(s, 1, Len(prefix)) = prefix

\* A literal of a pattern matched at the start of s under re.IGNORECASE
StartsWithIgnoreCase(s, literal) ==
    Len(s) >= Len(literal) /\ Lower(SubSeq(s, 1, Len(literal))) = Lower(literal)

Drop(s, n) == SubSeq(s, n + 1, Len(s))

Whitespace == { " ", "\t", "\n" }

RECURSIVE LStrip(_, _)
\* str.lstrip(chars)
LStrip(s, chars) ==
    IF s # << >> /\ Head(s) \in chars THEN LStrip(Tail(s), chars) ELSE s

RECURSIVE RStrip(_, _)
RStrip(s, chars) ==
    IF s # << >> /\ s[Len(s)] \in chars
    THEN RStrip(SubSeq(s, 1, Len(s) - 1), chars)
    ELSE s

\* str.strip()
Strip(s) == RStrip(LStrip(s, Whitespace), Whitespace)

RECURSIVE TakeSegment(_)
\* The longest prefix of s that [^/?#]+ can take
TakeSegment(s) ==
    IF s # << >> /\ Head(s) \notin { "/", "?", "#" }
    THEN << Head(s) >> \o TakeSegment(Tail(s))
    ELSE << >>

SchemeHttps == << "h", "t", "t", "p", "s", ":", "/", "/" >>

SchemeHttp == << "h", "t", "t", "p", ":", "/", "/" >>

Www == << "w", "w", "w", "." >>

XCom == << "x", ".", "c", "o", "m" >>

TwitterCom == << "t", "w", "i", "t", "t", "e", "r", ".", "c", "o", "m" >>

\* re.match of (?:https?://)?(?:www\.)?(?:x\.com|twitter\.com) followed by
\* separator and ([^/?#]+): whether it matches and its group 1
MatchProfileUrl(s, separator) ==
    LET a == IF StartsWithIgnoreCase(s, SchemeHttps) THEN Drop(s, Len(SchemeHttps))
             ELSE IF StartsWithIgnoreCase(s, SchemeHttp) THEN Drop(s, Len(SchemeHttp))
             ELSE s
        b == IF StartsWithIgnoreCase(a, Www) THEN Drop(a, Len(Www)) ELSE a
        onX == StartsWithIgnoreCase(b, XCom)
        onTwitter == StartsWithIgnoreCase(b, TwitterCom)
        c == IF onX THEN Drop(b, Len(XCom)) ELSE Drop(b, Len(TwitterCom))
        d == Drop(c, Len(separator))
    IN  IF (onX \/ onTwitter) /\ StartsWithIgnoreCase(c, separator)
            /\ TakeSegment(d) # << >>
        THEN [ matched |-> TRUE, group |-> TakeSegment(d) ]
        ELSE [ matched |-> FALSE, group |-> << >> ]

IdPrefix == << "i", "d", ":" >>

ParseUsername(input) ==
    LET stripped == Strip(input)
        first == MatchProfileUrl(stripped, << "/" >>)
        second == MatchProfileUrl(stripped, << "/", "@" >>)
    IN  IF StartsWith(input, IdPrefix) THEN input
        ELSE IF first.matched THEN Lower(LStrip(first.group, { "@" }))
        ELSE IF second.matched THEN Lower(LStrip(second.group, { "@" }))
        ELSE Lower(LStrip(stripped, { "@" }))

\* The username of the calls that the call model follows
DefaultUsername == << "@", "A", "b" >>

\* The inputs the resolver is given: a prefix, a handle, a suffix
NamePrefixes ==
    { << >>, << "@" >>, << "@", "@" >>, << " " >>,
      SchemeHttps \o XCom \o << "/" >>,
      SchemeHttp \o XCom \o << "/" >>,
      SchemeHttps \o Www \o XCom \o << "/" >>,
      << "H", "T", "T", "P", "S", ":", "/", "/", "X", ".", "C", "O", "M", "/" >>,
      SchemeHttps \o TwitterCom \o << "/" >>,
      << "w", "w", "w", ".", "T", "w", "i", "t", "t", "e", "r", ".", "c", "o",
         "m", "/" >>,
      SchemeHttps \o XCom \o << "/", "@" >>,
      IdPrefix, << "I", "D", ":" >>, << " " >> \o IdPrefix }

NameHandles ==
    { << "A", "b" >>, << "A", "B" >>, << "a", "b" >>, << "4", "2" >>,
      << "a", "_", "4" >> }

NameSuffixes ==
    { << >>, << "/", "s", "t", "a", "t", "u", "s", "/", "1" >>,
      << "?", "s", "=", "1" >>, << " " >> }

NameInputs ==
    { pre \o h \o suf : pre \in NamePrefixes, h \in NameHandles,
                        suf \in NameSuffixes }

----------------------------------------------------------------------------
(* The call *)

Init ==
    /\ username_input = DefaultUsername
    /\ username = ParseUsername(username_input)
    /\ source = << >>
    /\ collected = << >>
    /\ mode \in { "timeline", "search" }
    /\ batch_size \in 0..MaxBatch
    /\ page \in 0..MaxPage
    /\ media_type \in MediaTypes
    /\ mode = "search" => batch_size = 0 /\ page = 0 /\ media_type = "all"
    /\ pc = "match"
    /\ cursor = NoCursor
    /\ user = NoUser
    /\ stream = << >>
    /\ exhausted = FALSE
    /\ skip_branch = "none"
    /\ skipped = 0
    /\ items_fetched = 0
    /\ account_info = EmptyDict
    /\ total_urls = 0
    /\ new_timeline_entries = << >>
    /\ err = NoFailure
    /\ raised_by = NotRaised
    /\ outcome = "running"
    /\ result = EmptyDict

Request ==
    << username_input, username, source, collected, mode, batch_size, page,
       media_type >>

Output == << account_info, total_urls, new_timeline_entries >>

Iterator == << stream, exhausted, skipped, items_fetched >>

Branch == << skip_branch >>

\* The failure leaves the function: nothing is returned
Propagate(e) ==
    /\ pc' = "done"
    /\ outcome' = "raised"
    /\ err' = e
    /\ result' = result

\* A failure inside the outer try: control goes to its except clause
Catch(e) ==
    /\ pc' = "handler"
    /\ err' = e
    /\ UNCHANGED << outcome, result >>

Return(value) ==
    /\ pc' = "done"
    /\ outcome' = "returned"
    /\ result' = value
    /\ err' = err

\* re.match(extractor_class.pattern, url), before the try
MatchUrl ==
    /\ pc = "match"
    /\ \/ /\ pc' = "init"
          /\ UNCHANGED << err, outcome, result >>
       \/ Propagate(ValueErrorInvalidUrl)
    /\ UNCHANGED << Request, Output, Iterator, Branch, cursor, user, raised_by >>

\* extractor.initialize()
Initialize ==
    /\ pc = "init"
    /\ \/ /\ pc' = "lookup"
          /\ cursor' \in IF mode = "timeline" THEN { NoCursor, SomeCursor }
                                             ELSE { NoCursor }
          /\ UNCHANGED << err, outcome, result, raised_by >>
       \/ \E f \in Failures :
            /\ Catch(f)
            /\ raised_by' = [ at |-> "init", failure |-> f ]
            /\ cursor' = cursor
    /\ UNCHANGED << Request, Output, Iterator, Branch, user >>

\* The inner except clause of the account lookup: what it raises for e
LookupRaise(e) ==
    IF WithheldCheckRaises(e) THEN AttributeErrorNoText
    ELSE IF IsWithheldError(e) THEN ValueErrorWithheld
    ELSE e

\* The flag looked for on the record itself
HasWithheldScopeTopLevel(u) == Truthy(Get(u, "withheld_scope", PyNone))

HasWithheldScope(u) ==
    "legacy" \in DOMAIN u /\ Truthy(Get(u.legacy, "withheld_scope", PyNone))

\* api.user_by_rest_id / api.user_by_screen_name and the withheld_scope test
LookupUser ==
    /\ pc = "lookup"
    /\ \/ \E u \in Users :
            /\ user' = u
            /\ raised_by' = raised_by
            /\ IF HasWithheldScope(u)
               THEN /\ Catch(LookupRaise(ValueErrorWithheld))
                    /\ account_info' = account_info
               ELSE /\ pc' = IF mode = "timeline" THEN "skip" ELSE "search"
                    /\ account_info' =
                         IF mode = "timeline" THEN account_info
                         ELSE BuildAccountInfo(TransformUser(u))
                    /\ UNCHANGED << err, outcome, result >>
       \/ \E f \in Failures :
            /\ Catch(LookupRaise(f))
            /\ raised_by' = [ at |-> "lookup", failure |-> f ]
            /\ UNCHANGED << user, account_info >>
    /\ UNCHANGED << Request, Iterator, Branch, cursor, total_urls,
                    new_timeline_entries >>

\* A page counted from one
items_to_skip_from_one == (page - 1) * batch_size

items_to_skip == page * batch_size

\* The test of the skip and of the cursor
BeginSkip ==
    /\ pc = "skip"
    /\ IF batch_size > 0 /\ page > 0
       THEN IF Truthy(cursor)
            THEN pc' = "fetch" /\ skip_branch' = "cursor"
            ELSE pc' = "skipping" /\ skip_branch' = "loop"
       ELSE pc' = "fetch" /\ skip_branch' = "none"
    /\ UNCHANGED << Request, Output, Iterator, cursor, user, err, raised_by,
                    outcome, result >>

\* One next(iterator) that yields: the extractor may move its cursor
Yield(item) ==
    /\ ~exhausted
    /\ Len(stream) < MaxStream
    /\ stream' = Append(stream, item)
    /\ cursor' \in IF mode = "timeline" THEN { cursor, SomeCursor } ELSE { cursor }
    /\ exhausted' = exhausted

StopIteration ==
    /\ exhausted' = TRUE
    /\ UNCHANGED << stream, cursor >>

\* One next(iterator) that raises f
IterRaise(f, at) ==
    /\ ~exhausted
    /\ raised_by' = [ at |-> at, failure |-> f ]
    /\ exhausted' = TRUE
    /\ UNCHANGED << stream, cursor >>

\* for _ in range(items_to_skip): next(iterator); skipped += 1
SkipNext ==
    /\ pc = "skipping"
    /\ IF skipped < items_to_skip
       THEN \/ \E item \in Items :
                 /\ Yield(item)
                 /\ skipped' = skipped + 1
                 /\ UNCHANGED << pc, err, outcome, result, raised_by >>
            \/ /\ StopIteration
               /\ pc' = "fetch"
               /\ UNCHANGED << skipped, err, outcome, result, raised_by >>
            \/ \E f \in Failures :
                 /\ IterRaise(f, "skip")
                 /\ Catch(f)
                 /\ skipped' = skipped
       ELSE /\ pc' = "fetch"
            /\ UNCHANGED << stream, exhausted, cursor, skipped, err, outcome,
                            result, raised_by >>
    /\ UNCHANGED << Request, Output, Branch, user, items_fetched >>

\* The body of the fetch loop for one item
Accept(item) ==
    Len(item) >= 3 /\ IsTwitterMedia(item[2])
        /\ ShouldIncludeMedia(item[2], item[3], media_type)

\* total_urls counting every media item, whatever the filter says
NextTotalUrlsUnfiltered(item) ==
    IF Len(item) >= 3 /\ IsTwitterMedia(item[2]) THEN total_urls + 1
    ELSE total_urls

\* structured_output['total_urls'] += 1, with the entry that is appended
NextTotalUrls(item) == IF Accept(item) THEN total_urls + 1 ELSE total_urls

\* while items_fetched < items_to_fetch: item = next(iterator); ...
FetchNext ==
    /\ pc = "fetch"
    /\ IF batch_size = 0 \/ items_fetched < batch_size
       THEN \/ \E item \in Items :
                 /\ Yield(item)
                 /\ items_fetched' = items_fetched + 1
                 /\ account_info' =
                      IF Len(item) >= 3 /\ DOMAIN account_info = {}
                            /\ "user" \in DOMAIN item[3]
                      THEN BuildAccountInfo(item[3].user)
                      ELSE account_info
                 /\ new_timeline_entries' =
                      IF Accept(item)
                      THEN Append(new_timeline_entries,
                                  BuildTimelineEntry(item[2], item[3]))
                      ELSE new_timeline_entries
                 /\ total_urls' = NextTotalUrls(item)
                 /\ UNCHANGED << pc, err, outcome, result, raised_by >>
            \/ /\ StopIteration
               /\ pc' = "assemble"
               /\ UNCHANGED << Output, items_fetched, err, outcome, result,
                               raised_by >>
            \/ \E f \in Failures :
                 /\ IterRaise(f, "fetch")
                 /\ Catch(f)
                 /\ UNCHANGED << Output, items_fetched >>
       ELSE /\ pc' = "assemble"
            /\ UNCHANGED << Output, stream, exhausted, cursor, items_fetched,
                            err, outcome, result, raised_by >>
    /\ UNCHANGED << Request, Branch, user, skipped >>

\* The cap compared with the entries kept, not with the items pulled
has_more_by_entries == batch_size > 0 /\ Len(new_timeline_entries) = batch_size

has_more == batch_size > 0 /\ items_fetched = batch_size

\* The metadata, the account_info test and the return of get_metadata
Assemble ==
    /\ pc = "assemble"
    /\ IF DOMAIN account_info = {}
       THEN Catch(ValueErrorNotFound)
       ELSE Return([ account_info |-> account_info,
                     total_urls |-> total_urls,
                     timeline |-> new_timeline_entries,
                     metadata |->
                        [ new_entries |-> Len(new_timeline_entries),
                          page |-> page,
                          batch_size |-> batch_size,
                          has_more |-> has_more,
                          cursor |-> IF Truthy(cursor) THEN cursor ELSE PyNone ] ])
    /\ UNCHANGED << Request, Output, Iterator, Branch, cursor, user, raised_by >>

\* A failure in the loop of get_metadata_by_date treated as fatal
SearchFailureFatal(f) == Catch(f)

\* except Exception as e: print(...) around the loop of get_metadata_by_date
SearchFailure(f) ==
    /\ pc' = "search_assemble"
    /\ UNCHANGED << err, outcome, result >>

\* The loop of get_metadata_by_date
SearchNext ==
    /\ pc = "search"
    /\ \/ \E item \in Items :
            /\ Yield(item)
            /\ new_timeline_entries' =
                 IF Len(item) >= 3 /\ IsTwitterMedia(item[2])
                 THEN Append(new_timeline_entries,
                             BuildTimelineEntry(item[2], item[3]))
                 ELSE new_timeline_entries
            /\ total_urls' =
                 IF Len(item) >= 3 /\ IsTwitterMedia(item[2])
                 THEN total_urls + 1 ELSE total_urls
            /\ UNCHANGED << pc, raised_by, err, outcome, result >>
       \/ /\ StopIteration
          /\ pc' = "search_assemble"
          /\ UNCHANGED << total_urls, new_timeline_entries, raised_by, err,
                          outcome, result >>
       \/ \E f \in Failures :
            /\ IterRaise(f, "search")
            /\ SearchFailure(f)
            /\ UNCHANGED << total_urls, new_timeline_entries >>
    /\ UNCHANGED << Request, Branch, account_info, user, skipped,
                    items_fetched >>

\* The metadata and the return of get_metadata_by_date
SearchAssemble ==
    /\ pc = "search_assemble"
    /\ Return([ account_info |-> account_info,
                total_urls |-> total_urls,
                timeline |-> new_timeline_entries,
                metadata |-> [ new_entries |-> Len(new_timeline_entries),
                               method |-> "search_api" ] ])
    /\ UNCHANGED << Request, Output, Iterator, Branch, cursor, user, raised_by >>

\* The message of the error body for a failure the classifier accepts
ErrorMessage(e) ==
    IF IsWithheldError(e) THEN ERROR_MSG_WITHHELD
    ELSE IF e.msg = NoneText THEN ERROR_MSG_AUTH_FAILED
    ELSE e.msg

\* An error body that keeps what was accumulated
ErrorBodyWithEntries(e) ==
    [ error |-> ErrorMessage(e), total_urls |-> total_urls,
      timeline |-> new_timeline_entries ]

\* {"error": ...}
ErrorBody(e) == [ error |-> ErrorMessage(e) ]

\* The outer except clause
HandleError ==
    /\ pc = "handler"
    /\ IF WithheldCheckRaises(err)
       THEN Propagate(AttributeErrorNoText)
       ELSE Return(ErrorBody(err))
    /\ UNCHANGED << Request, Output, Iterator, Branch, cursor, user, raised_by >>

Next ==
    \/ MatchUrl
    \/ Initialize
    \/ LookupUser
    \/ BeginSkip
    \/ SkipNext
    \/ FetchNext
    \/ Assemble
    \/ SearchNext
    \/ SearchAssemble
    \/ HandleError

Spec == Init /\ [][Next]_vars

----------------------------------------------------------------------------
(* The resolver alone: username = _parse_username(username) on each input *)

\* Every variable of a call that has not begun
NotCalled ==
    /\ mode = "timeline" /\ batch_size = 0 /\ page = 0 /\ media_type = "all"
    /\ cursor = NoCursor /\ user = NoUser
    /\ stream = << >> /\ exhausted = FALSE
    /\ skip_branch = "none" /\ skipped = 0 /\ items_fetched = 0
    /\ account_info = EmptyDict /\ total_urls = 0
    /\ new_timeline_entries = << >>
    /\ err = NoFailure /\ raised_by = NotRaised
    /\ outcome = "running" /\ result = EmptyDict

ParseInit ==
    /\ username_input \in NameInputs
    /\ username = username_input
    /\ source = << >>
    /\ collected = << >>
    /\ pc = "parse"
    /\ NotCalled

ParseName ==
    /\ pc = "parse"
    /\ username' = ParseUsername(username)
    /\ pc' = "parsed"
    /\ UNCHANGED << username_input, source, collected, mode, batch_size, page,
                    media_type, Output, Iterator, Branch, cursor, user, err,
                    raised_by, outcome, result >>

ParseNext == ParseName

ParseSpec == ParseInit /\ [][ParseNext]_vars

----------------------------------------------------------------------------
(* get_metadata called page after page on an extractor whose iterator      *)
(* yields the items of source, in order, and then stops: every call makes   *)
(* a new extractor and a new iterator (lines 259, 297)                      *)

\* The skip counted from the page before
SkippedOnFromOne(src, b, p) ==
    IF b > 0 /\ p > 0 /\ ~Truthy(cursor)
    THEN (IF (p - 1) * b < Len(src) THEN (p - 1) * b ELSE Len(src))
    ELSE 0

\* skipped after lines 299-311: range(items_to_skip) cut short by StopIteration
SkippedOn(src, b, p) ==
    IF b > 0 /\ p > 0 /\ ~Truthy(cursor)
    THEN (IF p * b < Len(src) THEN p * b ELSE Len(src))
    ELSE 0

\* The items that next(iterator) returns in the loop of lines 318-338
FetchedOn(src, b, p) ==
    LET first == SkippedOn(src, b, p) + 1
        last == IF b > 0 /\ first + b - 1 < Len(src) THEN first + b - 1
                ELSE Len(src)
    IN  SubSeq(src, first, last)

\* new_timeline_entries after the loop has taken the items
RECURSIVE EntriesOf(_)
EntriesOf(items) ==
    IF items = << >> THEN << >>
    ELSE LET item == Head(items)
         IN  IF Accept(item)
             THEN << BuildTimelineEntry(item[2], item[3]) >>
                     \o EntriesOf(Tail(items))
             ELSE EntriesOf(Tail(items))

\* structured_output['account_info'] after the loop: set once, from the first
\* (kind, url, metadata) item whose metadata has a user
RECURSIVE AccountInfoOf(_)
AccountInfoOf(items) ==
    IF items = << >> THEN EmptyDict
    ELSE LET item == Head(items)
         IN  IF Len(item) >= 3 /\ "user" \in DOMAIN item[3]
             THEN BuildAccountInfo(item[3].user)
             ELSE AccountInfoOf(Tail(items))

\* What get_metadata returns for batch_size b and page p when the lookup
\* succeeds and nothing fails
GetMetadataOn(src, b, p) ==
    LET fetched == FetchedOn(src, b, p)
        entries == EntriesOf(fetched)
        info == AccountInfoOf(fetched)
    IN  IF DOMAIN info = {} THEN ErrorBody(ValueErrorNotFound)
        ELSE [ account_info |-> info,
               total_urls |-> Len(entries),
               timeline |-> entries,
               metadata |->
                  [ new_entries |-> Len(entries),
                    page |-> p,
                    batch_size |-> b,
                    has_more |-> b > 0 /\ Len(fetched) = b,
                    cursor |-> IF Truthy(cursor) THEN cursor ELSE PyNone ] ]

\* ceil(n / b)
PageCount(n, b) == (n + b - 1) \div b

PagesInit ==
    /\ username_input = DefaultUsername
    /\ username = ParseUsername(username_input)
    /\ source \in UNION { [ 1..n -> Items ] : n \in 0..MaxStream }
    /\ collected = << >>
    /\ mode = "timeline"
    /\ batch_size \in 1..MaxBatch
    /\ page = 0
    /\ media_type \in MediaTypes
    /\ pc = "paging"
    /\ cursor \in { NoCursor, SomeCursor }
    /\ user = UserPlain
    /\ stream = << >>
    /\ exhausted = FALSE
    /\ skip_branch = "none"
    /\ skipped = 0
    /\ items_fetched = 0
    /\ account_info = EmptyDict
    /\ total_urls = 0
    /\ new_timeline_entries = << >>
    /\ err = NoFailure
    /\ raised_by = NotRaised
    /\ outcome = "running"
    /\ result = EmptyDict

\* get_metadata(..., batch_size, page) for the next page
TurnPage ==
    /\ pc = "paging"
    /\ page < PageCount(Len(source), batch_size)
    /\ collected' = Append(collected, GetMetadataOn(source, batch_size, page))
    /\ page' = page + 1
    /\ UNCHANGED << username_input, username, source, mode, batch_size,
                    media_type, pc, Output, Iterator, Branch, cursor, user,
                    err, raised_by, outcome, result >>

\* get_metadata(..., batch_size = 0, page = 0)
FetchAll ==
    /\ pc = "paging"
    /\ page = PageCount(Len(source), batch_size)
    /\ result' = GetMetadataOn(source, 0, 0)
    /\ pc' = "compared"
    /\ UNCHANGED << Request, Output, Iterator, Branch, cursor, user, err,
                    raised_by, outcome >>

PagesNext == TurnPage \/ FetchAll

PagesSpec == PagesInit /\ [][PagesNext]_vars

----------------------------------------------------------------------------
(* Properties *)

Min(a, b) == IF a < b THEN a ELSE b

Done == outcome # "running"

Success == outcome = "returned" /\ "error" \notin DOMAIN result

LookupSucceeded == user \in Users /\ ~HasWithheldScope(user)

\* The three signals of a withheld failure, as the design names them
HasWithheldSignal(f) ==
    \/ f.etype = "ValueError" /\ f.msg = WITHHELD_ERROR_CODE
    \/ Contains(WITHHELD_ERROR_CODE, Lower(f.msg))
    \/ f.has_response /\ ~f.response_is_none
          /\ Contains(WITHHELD_ERROR_CODE, Lower(f.response_text))

\* A failure raised where the outer except clause classifies it
RaisedForClassifier ==
    \/ raised_by.at \in { "init", "lookup" }
    \/ mode = "timeline" /\ raised_by.at \in { "skip", "fetch" }

\* The items of s that the search loop turns into entries, as entries
RECURSIVE MediaEntries(_)
MediaEntries(s) ==
    IF s = << >> THEN << >>
    ELSE LET item == Head(s)
         IN  IF Len(item) >= 3
                  /\ (\E i \in 1..Len(item[2]) :
                         item[2][i] \in { "pbs.twimg.com", "video.twimg.com" })
             THEN << BuildTimelineEntry(item[2], item[3]) >> \o MediaEntries(Tail(s))
             ELSE MediaEntries(Tail(s))

\* The number of items of the fetched window that the filter accepts
AcceptedInWindow ==
    Cardinality({ i \in (skipped + 1)..Len(stream) :
                    IF mode = "timeline" THEN Accept(stream[i])
                    ELSE Len(stream[i]) >= 3 /\ IsTwitterMedia(stream[i][2]) })

\* Whether a (kind, url, metadata) item is on a media host and passes the
\* requested filter, host by host and type by type
PassesFilter(item, mt) ==
    LET onImageHost == \E i \in 1..Len(item[2]) : item[2][i] = "pbs.twimg.com"
        onVideoHost == \E i \in 1..Len(item[2]) : item[2][i] = "video.twimg.com"
        type == IF "type" \in DOMAIN item[3] THEN item[3].type ELSE "absent"
    IN  /\ onImageHost \/ onVideoHost
        /\ CASE mt = "all" -> TRUE
             [] mt = "image" -> onImageHost /\ type = "photo"
             [] mt = "video" -> onVideoHost /\ type = "video"
             [] mt = "gif" -> onVideoHost /\ type = "animated_gif"
             [] OTHER -> FALSE

\* The entries of the items of s that pass the filter, in the order of s
RECURSIVE FilteredEntries(_, _)
FilteredEntries(s, mt) ==
    IF s = << >> THEN << >>
    ELSE LET item == Head(s)
         IN  IF Len(item) >= 3 /\ PassesFilter(item, mt)
             THEN << BuildTimelineEntry(item[2], item[3]) >>
                     \o FilteredEntries(Tail(s), mt)
             ELSE FilteredEntries(Tail(s), mt)

\* The items pulled after the skip
FetchedWindow == SubSeq(stream, skipped + 1, Len(stream))

\* C1: get_metadata and get_metadata_by_date never let a failure reach the
\* caller: every call ends by returning a value.
C1_NeverPropagates == outcome # "raised"

C3_PastTheEndIsEmptySuccess ==
    (mode = "timeline" /\ page > 0 /\ batch_size > 0 /\ Done
        /\ LookupSucceeded /\ raised_by = NotRaised
        /\ exhausted /\ Len(stream) < page * batch_size)
    => Success /\ result.timeline = << >> /\ result.total_urls = 0

\* C4: in a success result of get_metadata, has_more is true exactly when
\* batch_size > 0 and the fetch phase pulled batch_size items.
C4_HasMore ==
    (mode = "timeline" /\ Success)
    => /\ result.metadata.has_more
            <=> (batch_size > 0 /\ Len(stream) - skipped = batch_size)
       /\ batch_size = 0 => ~result.metadata.has_more
       /\ (exhausted /\ Len(stream) - skipped < batch_size)
            => ~result.metadata.has_more

C4_Witness ==
    /\ mode = "timeline" /\ Success /\ result.metadata.has_more
    /\ Len(stream) - skipped = batch_size /\ skipped > 0

\* C5: in a success result, total_urls is the length of the timeline and
\* new_entries, the number of accepted entries and not of items pulled; in
\* timeline mode with batch_size > 0 it is at most batch_size.
C5_TotalUrls ==
    Success
    => /\ result.total_urls = Len(result.timeline)
       /\ result.total_urls = result.metadata.new_entries
       /\ result.total_urls = AcceptedInWindow
       /\ (mode = "timeline" /\ batch_size > 0) => result.total_urls <= batch_size

C5_Witness ==
    /\ mode = "timeline" /\ Success /\ media_type = "image"
    /\ result.total_urls = 1 /\ Len(stream) - skipped = 2

\* C6: a returned value is an error body with the single key error, or a
\* success body without that key; in timeline mode a failure of the iterator
\* yields the error body only, whatever was accumulated.
C6_ErrorOrBody ==
    outcome = "returned"
    => /\ \/ DOMAIN result = { "error" }
          \/ /\ { "account_info", "total_urls", "timeline", "metadata" }
                    \subseteq DOMAIN result
             /\ "error" \notin DOMAIN result
       /\ (mode = "timeline" /\ raised_by.at \in { "skip", "fetch" })
            => DOMAIN result = { "error" }

C6_Witness ==
    /\ mode = "timeline" /\ outcome = "returned" /\ raised_by.at = "fetch"
    /\ Len(new_timeline_entries) >= 1 /\ DOMAIN result = { "error" }

\* C7: a failure raised by initialization, account lookup or timeline
\* iteration that shows any one of the three withheld signals makes the call
\* return exactly the withheld message.
C7_WithheldSignals ==
    (Done /\ RaisedForClassifier /\ HasWithheldSignal(raised_by.failure))
    => outcome = "returned" /\ result = [ error |-> ERROR_MSG_WITHHELD ]

\* C8: when the account lookup returns a record whose legacy part has a truthy
\* withheld_scope, the call returns exactly the withheld message and the
\* iterator is never advanced.
C8_WithheldScope ==
    (user \in Users /\ "legacy" \in DOMAIN user
        /\ "withheld_scope" \in DOMAIN user.legacy
        /\ user.legacy.withheld_scope = "user")
    => /\ stream = << >> /\ ~exhausted /\ skipped = 0 /\ items_fetched = 0
       /\ Done => outcome = "returned" /\ result = [ error |-> ERROR_MSG_WITHHELD ]

C8_Witness ==
    /\ user = UserWithheld /\ outcome = "returned"
    /\ result = [ error |-> ERROR_MSG_WITHHELD ]

\* C9: a failure without a withheld signal whose message is exactly None makes
\* the call return the authentication message; any other failure without a
\* withheld signal is returned as its own message.
C9_NoneIsAuthFailure ==
    (Done /\ RaisedForClassifier /\ ~HasWithheldSignal(raised_by.failure))
    => /\ outcome = "returned"
       /\ result = [ error |-> IF raised_by.failure.msg = NoneText
                               THEN ERROR_MSG_AUTH_FAILED
                               ELSE raised_by.failure.msg ]

\* C10: in get_metadata_by_date, after a successful account lookup, the call
\* returns a success body whose timeline is the entries of every media item
\* yielded, in order and unfiltered, also when an iterator advance failed.
C10_SearchPartialSuccess ==
    (mode = "search" /\ LookupSucceeded)
    => /\ pc # "handler"
       /\ Done =>
            /\ Success
            /\ result.timeline = MediaEntries(stream)
            /\ result.total_urls = Len(MediaEntries(stream))

C10_Witness ==
    /\ mode = "search" /\ pc = "done" /\ raised_by.at = "search" /\ Success
    /\ Len(result.timeline) = 2 /\ Len(stream) = 3

\* C11: in a success result of get_metadata the timeline is, in stream order,
\* the entries of the items of the fetched window (after the skip, at most
\* batch_size items) that are (kind, url, metadata) tuples on the image or
\* video host and pass the filter: all takes each, image only photos on the
\* image host, video only videos on the video host, gif only animated_gif on
\* the video host, any other value none.
C11_TimelineIsFilteredWindow ==
    (mode = "timeline" /\ Success)
    => /\ result.timeline = FilteredEntries(FetchedWindow, media_type)
       /\ batch_size > 0 => Len(FetchedWindow) <= batch_size
       /\ media_type \notin { "all", "image", "video", "gif" }
            => result.timeline = << >>

C11_Witness ==
    /\ mode = "timeline" /\ Success /\ media_type = "video"
    /\ FetchedWindow = << ItemVideoOnImageHost, ItemVideo, ItemGifUser >>
    /\ Len(result.timeline) = 1 /\ result.timeline[1].tweet_id = 13

\* id:<digits>
IsIdDigits(s) ==
    /\ Len(s) > 3 /\ SubSeq(s, 1, 3) = << "i", "d", ":" >>
    /\ \A i \in 4..Len(s) :
          s[i] \in { "0", "1", "2", "3", "4", "5", "6", "7", "8", "9" }

Uppercase ==
    { "A", "B", "C", "D", "E", "F", "G", "H", "I", "J", "K", "L", "M", "N", "O",
      "P", "Q", "R", "S", "T", "U", "V", "W", "X", "Y", "Z" }

\* The forms of one handle h that the resolver is to treat alike
HandleForms(h) ==
    LET status == << "/", "s", "t", "a", "t", "u", "s", "/", "1" >>
        urls == { SchemeHttps \o XCom \o << "/" >>,
                  SchemeHttps \o Www \o XCom \o << "/" >>,
                  << "H", "T", "T", "P", "S", ":", "/", "/", "X", ".", "C", "O",
                     "M", "/" >>,
                  SchemeHttps \o TwitterCom \o << "/" >>,
                  << "w", "w", "w", ".", "T", "w", "i", "t", "t", "e", "r", ".",
                     "c", "o", "m", "/" >> }
    IN  { h, << "@" >> \o h }
          \cup { u \o h : u \in urls }
          \cup { u \o h \o status : u \in urls }

\* C12: the resolver maps @Handle, Handle, HANDLE and the profile URLs of
\* Handle (any letter case, optional www., a path after the handle) to the
\* same lowercase handle, returns id:<digits> unchanged, and returns no
\* uppercase letter for any input that is not id:<digits>.
C12_ResolvedName ==
    pc = "parsed"
    => /\ \A h \in NameHandles :
            username_input \in HandleForms(h) => username = Lower(h)
       /\ IsIdDigits(username_input) => username = username_input
       /\ ~IsIdDigits(username_input)
            => \A i \in 1..Len(username) : username[i] \notin Uppercase

\* The entries a returned value carries: none when it is an error body
TimelineOf(r) == IF "timeline" \in DOMAIN r THEN r.timeline ELSE << >>

\* The timelines of the results in rs, one after the other
RECURSIVE Concatenation(_)
Concatenation(rs) ==
    IF rs = << >> THEN << >>
    ELSE TimelineOf(Head(rs)) \o Concatenation(Tail(rs))

\* Every item has a user in its metadata
EveryItemCarriesUser ==
    \A i \in 1..Len(source) : "user" \in DOMAIN source[i][Len(source[i])]

\* Every item is a (kind, url, metadata) tuple
EveryItemIsMedia == \A i \in 1..Len(source) : Len(source[i]) >= 3

\* C13: on a fixed stream of N items that all carry a user, with no cursor on
\* the extractor, for batch_size b > 0 and any filter, the timelines of pages
\* 0 .. ceil(N/b)-1 one after the other are the timeline of the call with
\* batch_size = 0; page k holds the entries of items k*b+1 .. min((k+1)*b, N)
\* of the stream, so that no item is returned twice and none is dropped.
C13_PagesMakeTheWhole ==
    (pc = "compared" /\ cursor = NoCursor /\ EveryItemCarriesUser)
    => /\ Len(collected) = PageCount(Len(source), batch_size)
       /\ Concatenation(collected) = TimelineOf(result)
       /\ TimelineOf(result) = FilteredEntries(source, media_type)
       /\ \A k \in 1..Len(collected) :
            TimelineOf(collected[k]) =
                FilteredEntries(
                    SubSeq(source, (k - 1) * batch_size + 1,
                           Min(k * batch_size, Len(source))),
                    media_type)
       /\ (EveryItemIsMedia /\ Len(source) >= 1)
            => /\ "timeline" \in DOMAIN result
               /\ \A k \in 1..Len(collected) : "timeline" \in DOMAIN collected[k]

C13_Witness ==
    /\ pc = "compared" /\ cursor = NoCursor /\ media_type = "all"
    /\ source = << ItemPhotoUser, ItemGifUser, ItemPhotoUser >>
    /\ batch_size = 2 /\ Len(collected) = 2
    /\ Len(collected[1].timeline) = 2 /\ Len(collected[2].timeline) = 1
    /\ collected[2].timeline[1].tweet_id = 11
    /\ Len(result.timeline) = 3

============================================================================
